---- MODULE Spec2Model ----
(***************************************************************************)
(* A model of plot.py of RL-2048: parse_2048_training_data, the line       *)
(* parser of the training log, and the x-axis tick computation of          *)
(* plot_2048_training_results.                                             *)
(*                                                                         *)
(* Text is a sequence of one-character strings.  A float is the decimal    *)
(* it was read from, kept exactly as a record of its mantissa m and its    *)
(* number e of fraction digits, with no trailing fraction zero, so that    *)
(* two texts give equal values exactly when they denote the same number    *)
(* (1.50 and 1.5, 3 and 3.0).  The integer 0 that seeds means is kept as   *)
(* that same zero: Python compares 0 and 0.0 equal.                        *)
(***************************************************************************)
EXTENDS Integers, Sequences, FiniteSets

(***************************************************************************)
(* The bound of the model and the log lines the inputs are built from.     *)
(***************************************************************************)
MaxLines ==
    3

\* the log line 'alpha = 0.1'
AlphaLine ==
    <<"a", "l", "p", "h", "a", " ", "=", " ", "0", ".", "1">>

\* the log line 'seed = 42'
SeedLine ==
    <<"s", "e", "e", "d", " ", "=", " ", "4", "2">>

\* the log line 'seed = 1 = 2'
SeedTwoSeps ==
    <<"s", "e", "e", "d", " ", "=", " ", "1", " ", "=", " ", "2">>

\* the log line 'total = 1000'
TotalLine ==
    <<"t", "o", "t", "a", "l", " ", "=", " ", "1", "0", "0", "0">>

\* the log line 'seed=7'
SeedNoSpaces ==
    <<"s", "e", "e", "d", "=", "7">>

\* the log line 'alpha = '
AlphaNoValue ==
    <<"a", "l", "p", "h", "a", " ", "=", " ">>

\* the log line '100\tmean = 12.5\tmax = 98'
Episode100 ==
    <<"1", "0", "0", "\t", "m", "e", "a", "n", " ", "=", " ", "1", "2", ".", "5", "\t", "m", "a", "x", " ", "=", " ", "9", "8">>

\* the log line '2500 mean=3 max=9'
Episode2500 ==
    <<"2", "5", "0", "0", " ", "m", "e", "a", "n", "=", "3", " ", "m", "a", "x", "=", "9">>

\* the log line '7 mean = 1.2.3 max = 4'
EpisodeBadMean ==
    <<"7", " ", "m", "e", "a", "n", " ", "=", " ", "1", ".", "2", ".", "3", " ", "m", "a", "x", " ", "=", " ", "4">>

\* the log line '\t2048\t3.25%'
ProbTabbed ==
    <<"\t", "2", "0", "4", "8", "\t", "3", ".", "2", "5", "%">>

\* the log line '2048 1.5%'
ProbPlain ==
    <<"2", "0", "4", "8", " ", "1", ".", "5", "%">>

\* the log line '2048 1..5%'
ProbBadNumber ==
    <<"2", "0", "4", "8", " ", "1", ".", ".", "5", "%">>

\* the log line ''
EmptyLine ==
    <<>>

\* the log line '2048 3.25'
ProbNoPercent ==
    <<"2", "0", "4", "8", " ", "3", ".", "2", "5">>

\* the log line '3 mean = 4'
EpisodeNoMax ==
    <<"3", " ", "m", "e", "a", "n", " ", "=", " ", "4">>

Catalog ==
    {AlphaLine, SeedLine, SeedTwoSeps, TotalLine, SeedNoSpaces, AlphaNoValue, Episode100, Episode2500, EpisodeBadMean, ProbTabbed, ProbPlain, ProbBadNumber, EmptyLine, ProbNoPercent, EpisodeNoMax}

(***************************************************************************)
(* Inputs: every text made of at most MaxLines catalogue lines joined by   *)
(* newlines.                                                               *)
(***************************************************************************)
RECURSIVE JoinLines(_)
JoinLines(ls) ==
    IF ls = <<>> THEN <<>>
    ELSE IF Len(ls) = 1 THEN ls[1]
    ELSE ls[1] \o <<"\n">> \o JoinLines(Tail(ls))

LineSeqs ==
    UNION {[1..n -> Catalog] : n \in 0..MaxLines}

Inputs ==
    {JoinLines(ls) : ls \in LineSeqs}

(***************************************************************************)
(* Characters and the string operations the parser uses.                   *)
(***************************************************************************)
Whitespace ==
    {" ", "\t", "\n"}

DigitChars ==
    <<"0", "1", "2", "3", "4", "5", "6", "7", "8", "9">>

Digit ==
    {DigitChars[n] : n \in 1..Len(DigitChars)}

NumChar ==
    Digit \cup {"."}

SetMin(S) ==
    CHOOSE x \in S : \A y \in S : x <= y

SetMax(S) ==
    CHOOSE x \in S : \A y \in S : y <= x

\* str.strip(): leading and trailing whitespace removed
RECURSIVE LStrip(_)
LStrip(s) ==
    IF s # <<>> /\ Head(s) \in Whitespace THEN LStrip(Tail(s)) ELSE s

RECURSIVE RStrip(_)
RStrip(s) ==
    IF s # <<>> /\ s[Len(s)] \in Whitespace
    THEN RStrip(SubSeq(s, 1, Len(s) - 1))
    ELSE s

Strip(s) ==
    RStrip(LStrip(s))

\* whether lit occurs in s at position p
OccursAt(s, p, lit) ==
    /\ p >= 1
    /\ p + Len(lit) - 1 <= Len(s)
    /\ SubSeq(s, p, p + Len(lit) - 1) = lit

\* str.startswith(lit)
StartsWith(s, lit) ==
    OccursAt(s, 1, lit)

\* str.split(sep): the pieces between the occurrences of sep, left to right
RECURSIVE Split(_, _)
Split(s, sep) ==
    LET hits == {p \in 1..Len(s) : OccursAt(s, p, sep)}
    IN  IF hits = {} THEN <<s>>
        ELSE LET p == SetMin(hits)
             IN  <<SubSeq(s, 1, p - 1)>>
                     \o Split(SubSeq(s, p + Len(sep), Len(s)), sep)

\* the position after the longest run of characters of class C from p on
RECURSIVE SkipClass(_, _, _)
SkipClass(s, p, C) ==
    IF p <= Len(s) /\ s[p] \in C THEN SkipClass(s, p + 1, C) ELSE p

\* int(text): the decimal value of a digit string
DigitVal(c) ==
    CHOOSE n \in 0..9 : DigitChars[n + 1] = c

AllDigits(t) ==
    t # <<>> /\ \A p \in 1..Len(t) : t[p] \in Digit

RECURSIVE IntOf(_)
IntOf(t) ==
    IF t = <<>> THEN 0
    ELSE IntOf(SubSeq(t, 1, Len(t) - 1)) * 10 + DigitVal(t[Len(t)])

\* float(text) of a text of digits and dots: defined when the text has at
\* most one dot and at least one digit; float() raises ValueError otherwise
ValidFloat(t) ==
    /\ \A p \in 1..Len(t) : t[p] \in NumChar
    /\ \E p \in 1..Len(t) : t[p] \in Digit
    /\ Cardinality({p \in 1..Len(t) : t[p] = "."}) <= 1

RECURSIVE Normal(_, _)
Normal(m, e) ==
    IF e > 0 /\ m % 10 = 0 THEN Normal(m \div 10, e - 1)
    ELSE [m |-> m, e |-> e]

FloatOf(t) ==
    LET dots == {p \in 1..Len(t) : t[p] = "."}
        dot == IF dots = {} THEN Len(t) + 1 ELSE SetMin(dots)
        digits == SubSeq(t, 1, dot - 1) \o SubSeq(t, dot + 1, Len(t))
    IN  Normal(IntOf(digits), Len(t) - SetMin({dot, Len(t)}))

Zero ==
    [m |-> 0, e |-> 0]

(***************************************************************************)
(* The regular expressions of the parser.  Each class of a pattern is      *)
(* followed by something outside the class, so the greedy scan below       *)
(* matches exactly when the expression does.                               *)
(***************************************************************************)
MeanWord ==
    <<"m", "e", "a", "n">>

MaxWord ==
    <<"m", "a", "x">>

TileWord ==
    <<"2", "0", "4", "8">>

Separator ==
    <<" ", "=", " ">>

AlphaPrefix ==
    <<"a", "l", "p", "h", "a">> \o Separator

TotalPrefix ==
    <<"t", "o", "t", "a", "l">> \o Separator

SeedPrefix ==
    <<"s", "e", "e", "d">> \o Separator

\* word\s*=\s*([\d.]+) matched at p: the span <<first, last>> of the group,
\* <<>> when the pattern does not match there
KeyNumberAt(s, p, word) ==
    IF ~OccursAt(s, p, word) THEN <<>>
    ELSE LET a == SkipClass(s, p + Len(word), Whitespace)
         IN  IF ~(a <= Len(s) /\ s[a] = "=") THEN <<>>
             ELSE LET b == SkipClass(s, a + 1, Whitespace)
                      c == SkipClass(s, b, NumChar)
                  IN  IF c = b THEN <<>> ELSE <<b, c - 1>>

\* re.match(r'^\d+\s+mean\s*=\s*[\d.]+\s+max\s*=\s*[\d.]+', line)
EpisodeMatch(line) ==
    LET d == SkipClass(line, 1, Digit)
        w == SkipClass(line, d, Whitespace)
        mean == IF d > 1 /\ w > d THEN KeyNumberAt(line, w, MeanWord) ELSE <<>>
        w2 == IF mean = <<>> THEN 0
              ELSE SkipClass(line, mean[2] + 1, Whitespace)
    IN  /\ mean # <<>>
        /\ w2 > mean[2] + 1
        /\ KeyNumberAt(line, w2, MaxWord) # <<>>

\* MeanSearch with the pattern 'mean = ([\d.]+)': one space on each side of
\* the equals sign is required
MeanSearchSpaced(line) ==
    LET lit == MeanWord \o Separator
        hits == {p \in 1..Len(line) :
                    /\ OccursAt(line, p, lit)
                    /\ SkipClass(line, p + Len(lit), NumChar) > p + Len(lit)}
    IN  IF hits = {} THEN <<>>
        ELSE LET b == SetMin(hits) + Len(lit)
             IN  <<SubSeq(line, b, SkipClass(line, b, NumChar) - 1)>>

\* re.search(r'mean\s*=\s*([\d.]+)', line): <<group 1>> of the leftmost
\* match, <<>> for None
MeanSearch(line) ==
    LET hits == {p \in 1..Len(line) : KeyNumberAt(line, p, MeanWord) # <<>>}
    IN  IF hits = {} THEN <<>>
        ELSE LET g == KeyNumberAt(line, SetMin(hits), MeanWord)
             IN  <<SubSeq(line, g[1], g[2])>>

\* 2048\s+([\d.]+)% matched at p: the span of the group, <<>> when no match
TileNumberAt(s, p) ==
    IF ~OccursAt(s, p, TileWord) THEN <<>>
    ELSE LET w == SkipClass(s, p + Len(TileWord), Whitespace)
             n == SkipClass(s, w, NumChar)
         IN  IF w > p + Len(TileWord) /\ n > w /\ n <= Len(s) /\ s[n] = "%"
             THEN <<w, n - 1>>
             ELSE <<>>

\* re.match(r'^\s*2048\s+[\d.]+%', line)
ProbMatch(line) ==
    TileNumberAt(line, SkipClass(line, 1, Whitespace)) # <<>>

\* re.search(r'2048\s+([\d.]+)%', line)
ProbSearch(line) ==
    LET hits == {p \in 1..Len(line) : TileNumberAt(line, p) # <<>>}
    IN  IF hits = {} THEN <<>>
        ELSE LET g == TileNumberAt(line, SetMin(hits))
             IN  <<SubSeq(line, g[1], g[2])>>

\* re.split(r'\s+', line)[0]: the text before the first whitespace
FirstField(line) ==
    LET ws == {p \in 1..Len(line) : line[p] \in Whitespace}
    IN  IF ws = {} THEN line ELSE SubSeq(line, 1, SetMin(ws) - 1)

\* the branch of the if/elif chain a trimmed line takes
Branch(line) ==
    IF StartsWith(line, AlphaPrefix) THEN "alpha"
    ELSE IF StartsWith(line, TotalPrefix) THEN "total"
    ELSE IF StartsWith(line, SeedPrefix) THEN "seed"
    ELSE IF EpisodeMatch(line) THEN "episode"
    ELSE IF ProbMatch(line) THEN "prob"
    ELSE "other"

(***************************************************************************)
(* The state: the input text, the locals of parse_2048_training_data, the  *)
(* ticks plot_2048_training_results last handed to xticks, the position    *)
(* in the code and the exception raised, if any.                           *)
(***************************************************************************)
VARIABLES data, lines, i, metadata, episodes, means, prob2048, x_ticks, pc, err

vars ==
    <<data, lines, i, metadata, episodes, means, prob2048, x_ticks, pc, err>>

NoMetadata ==
    [k \in {} |-> <<>>]

Init ==
    /\ data \in Inputs
    /\ lines = <<>>
    /\ i = 0
    /\ metadata = NoMetadata
    /\ episodes = <<>>
    /\ means = <<>>
    /\ prob2048 = <<>>
    /\ x_ticks = <<>>
    /\ pc = "start"
    /\ err = "none"

\* lines 14-22: the text is trimmed and split into lines, the results are
\* seeded
ParseStart ==
    /\ pc = "start"
    /\ lines' = Split(Strip(data), <<"\n">>)
    /\ metadata' = NoMetadata
    /\ episodes' = <<0>>
    /\ means' = <<Zero>>
    /\ prob2048' = <<Zero>>
    /\ i' = 0
    /\ pc' = "loop"
    /\ UNCHANGED <<data, x_ticks, err>>

\* line 24: the line the loop is at, trimmed
CurLine ==
    Strip(lines[i + 1])

AtLine(branch) ==
    /\ pc = "loop"
    /\ i < Len(lines)
    /\ Branch(CurLine) = branch

Raise(e) ==
    /\ pc' = "parse_raised"
    /\ err' = e

\* line.split(' = ')[2] in place of [1]
SplitIndexedOffByOne(line) ==
    LET parts == Split(line, Separator)
    IN  IF Len(parts) >= 3 THEN <<parts[3]>> ELSE <<>>

\* line.split(' = ')[1]: <<the piece>>, or <<>> when the split has a single
\* piece and the index raises IndexError
SplitIndexed(line) ==
    LET parts == Split(line, Separator)
    IN  IF Len(parts) >= 2 THEN <<parts[2]>> ELSE <<>>

\* StoreMetadata keeping the first value of a key (dict.setdefault)
StoreMetadataFirstWins(key) ==
    LET value == SplitIndexed(CurLine)
    IN  IF value = <<>>
        THEN /\ Raise("IndexError")
             /\ UNCHANGED <<metadata, i>>
        ELSE /\ metadata' = [k \in DOMAIN metadata \cup {key} |->
                                IF k \in DOMAIN metadata THEN metadata[k]
                                ELSE value[1]]
             /\ i' = i + 1
             /\ UNCHANGED <<pc, err>>

\* metadata[key] = line.split(' = ')[1]
StoreMetadata(key) ==
    LET value == SplitIndexed(CurLine)
    IN  IF value = <<>>
        THEN /\ Raise("IndexError")
             /\ UNCHANGED <<metadata, i>>
        ELSE /\ metadata' = [k \in DOMAIN metadata \cup {key} |->
                                IF k = key THEN value[1] ELSE metadata[k]]
             /\ i' = i + 1
             /\ UNCHANGED <<pc, err>>

\* lines 27-28
ParseAlpha ==
    /\ AtLine("alpha")
    /\ StoreMetadata("alpha")
    /\ UNCHANGED <<data, lines, episodes, means, prob2048, x_ticks>>

\* lines 29-30
ParseTotal ==
    /\ AtLine("total")
    /\ StoreMetadata("total")
    /\ UNCHANGED <<data, lines, episodes, means, prob2048, x_ticks>>

\* lines 31-32
ParseSeed ==
    /\ AtLine("seed")
    /\ StoreMetadata("seed")
    /\ UNCHANGED <<data, lines, episodes, means, prob2048, x_ticks>>

\* ParseEpisode with a mean that is no number passed over: the placeholder
\* stays and the loop goes on
ParseEpisodeSkippingBadMean ==
    /\ AtLine("episode")
    /\ prob2048' = Append(prob2048, Zero)
    /\ LET number == FirstField(CurLine)
           mean_match == MeanSearch(CurLine)
       IN  IF mean_match = <<>> \/ ~ValidFloat(mean_match[1])
           THEN UNCHANGED <<episodes, means>>
           ELSE /\ episodes' = Append(episodes, IntOf(number))
                /\ means' = Append(means, FloatOf(mean_match[1]))
    /\ i' = i + 1
    /\ UNCHANGED <<data, lines, metadata, x_ticks, pc, err>>

\* an append that skips an episode number already listed
AppendEpisodeOnce(eps, episode) ==
    IF \E k \in 1..Len(eps) : eps[k] = episode THEN eps
    ELSE Append(eps, episode)

\* line 43: episodes.append(episode)
AppendEpisode(eps, episode) ==
    Append(eps, episode)

\* lines 35-44: the placeholder is appended first; int() and float() may
\* raise after it
ParseEpisode ==
    /\ AtLine("episode")
    /\ prob2048' = Append(prob2048, Zero)
    /\ LET number == FirstField(CurLine)
           mean_match == MeanSearch(CurLine)
       IN  IF ~AllDigits(number)
           THEN /\ Raise("ValueError")
                /\ UNCHANGED <<episodes, means, i>>
           ELSE IF mean_match = <<>>
           THEN /\ i' = i + 1
                /\ UNCHANGED <<episodes, means, pc, err>>
           ELSE IF ~ValidFloat(mean_match[1])
           THEN /\ Raise("ValueError")
                /\ UNCHANGED <<episodes, means, i>>
           ELSE /\ episodes' = AppendEpisode(episodes, IntOf(number))
                /\ means' = Append(means, FloatOf(mean_match[1]))
                /\ i' = i + 1
                /\ UNCHANGED <<pc, err>>
    /\ UNCHANGED <<data, lines, metadata, x_ticks>>

\* the value appended in place of overwriting the last entry
SetLastByAppend(seq, value) ==
    Append(seq, value)

\* line 50: prob2048[-1] = prob
SetLast(seq, value) ==
    [seq EXCEPT ![Len(seq)] = value]

\* lines 46-50: the last entry of prob2048 is overwritten
ParseProb ==
    /\ AtLine("prob")
    /\ LET prob_match == ProbSearch(CurLine)
       IN  IF prob_match = <<>>
           THEN /\ i' = i + 1
                /\ UNCHANGED <<prob2048, pc, err>>
           ELSE IF ~ValidFloat(prob_match[1])
           THEN /\ Raise("ValueError")
                /\ UNCHANGED <<prob2048, i>>
           ELSE /\ prob2048' = SetLast(prob2048, FloatOf(prob_match[1]))
                /\ i' = i + 1
                /\ UNCHANGED <<pc, err>>
    /\ UNCHANGED <<data, lines, metadata, episodes, means, x_ticks>>

\* SkipLine with the placeholder of line 38 appended for every line that is
\* no metadata line
SkipLineWithPlaceholder ==
    /\ AtLine("other")
    /\ prob2048' = Append(prob2048, Zero)
    /\ i' = i + 1
    /\ UNCHANGED <<data, lines, metadata, episodes, means, x_ticks, pc, err>>

\* line 52 alone: no branch of the chain is taken
SkipLine ==
    /\ AtLine("other")
    /\ i' = i + 1
    /\ UNCHANGED <<data, lines, metadata, episodes, means, prob2048,
                   x_ticks, pc, err>>

\* lines 23 and 54: the loop ends and the four results are returned
ParseReturn ==
    /\ pc = "loop"
    /\ i >= Len(lines)
    /\ pc' = "returned"
    /\ UNCHANGED <<data, lines, i, metadata, episodes, means, prob2048,
                   x_ticks, err>>

(***************************************************************************)
(* plot_2048_training_results: the x-axis ticks of the two charts.         *)
(***************************************************************************)
TickUnit ==
    1000

TickSteps ==
    10

SeqRange(s) ==
    {s[k] : k \in 1..Len(s)}

\* lines 82-83 and 126-127
XMin ==
    (SetMin(SeqRange(episodes)) \div TickUnit) * TickUnit

XMax ==
    (SetMax(SeqRange(episodes)) \div TickUnit) * TickUnit + 1

\* lines 84 and 128
XStep ==
    (XMax - XMin) \div TickSteps

\* range(lo, hi, step) for a positive step, as a list
RangeList(lo, hi, step) ==
    [k \in 1..((hi - lo + step - 1) \div step) |-> lo + (k - 1) * step]

\* lines 81-85 (next = "chart2") and 125-129 (next = "done"): range()
\* raises ValueError for a step of zero
SetTicks(next) ==
    IF episodes = <<>>
    THEN /\ pc' = next
         /\ UNCHANGED <<x_ticks, err>>
    ELSE IF XStep = 0
    THEN /\ pc' = "plot_raised"
         /\ err' = "ValueError"
         /\ UNCHANGED x_ticks
    ELSE /\ x_ticks' = RangeList(XMin, XMax, XStep)
         /\ pc' = next
         /\ UNCHANGED err

PlotMeanTicks ==
    /\ pc = "returned"
    /\ SetTicks("chart2")
    /\ UNCHANGED <<data, lines, i, metadata, episodes, means, prob2048>>

PlotProbTicks ==
    /\ pc = "chart2"
    /\ SetTicks("done")
    /\ UNCHANGED <<data, lines, i, metadata, episodes, means, prob2048>>

Next ==
    \/ ParseStart
    \/ ParseAlpha
    \/ ParseTotal
    \/ ParseSeed
    \/ ParseEpisode
    \/ ParseProb
    \/ SkipLine
    \/ ParseReturn
    \/ PlotMeanTicks
    \/ PlotProbTicks

Spec ==
    Init /\ [][Next]_vars

(***************************************************************************)
(* What the properties below speak of: the lines of the input by the       *)
(* branch they take, and the numbers they hold read off the text.          *)
(***************************************************************************)
ParseReturned ==
    pc \in {"returned", "chart2", "done", "plot_raised"}

Keys ==
    {"alpha", "total", "seed"}

Trimmed(k) ==
    Strip(lines[k])

LinesOf(kind) ==
    {k \in 1..Len(lines) : Branch(Trimmed(k)) = kind}

EpisodeLines ==
    LinesOf("episode")

\* the number of episode lines up to line k
EpisodeRank(k) ==
    Cardinality({a \in EpisodeLines : a <= k})

\* the episode line of rank j
EpisodeLineAt(j) ==
    CHOOSE a \in EpisodeLines : EpisodeRank(a) = j

\* the episode number an episode line starts with
LeadingNumber(line) ==
    IntOf(SubSeq(line, 1, SkipClass(line, 1, Digit) - 1))

\* the text between 2048 and the percent sign of a probability line
ProbNumberText(line) ==
    LET from == SkipClass(line, Len(TileWord) + 1, Whitespace)
        pct == SetMin({p \in from..Len(line) : line[p] = "%"})
    IN  SubSeq(line, from, pct - 1)

\* the text after mean = of an episode line
MeanText(line) ==
    LET w == SkipClass(line, SkipClass(line, 1, Digit), Whitespace)
        g == KeyNumberAt(line, w, MeanWord)
    IN  SubSeq(line, g[1], g[2])

\* a decimal numeral: digits with at most one dot among them
IsDecimal(t) ==
    \/ t # <<>> /\ \A p \in 1..Len(t) : t[p] \in Digit
    \/ /\ Len(t) >= 2
       /\ \E d \in 1..Len(t) :
              /\ t[d] = "."
              /\ \A p \in 1..Len(t) : p # d => t[p] \in Digit

RECURSIVE Pow10(_)
Pow10(n) ==
    IF n = 0 THEN 1 ELSE 10 * Pow10(n - 1)

\* whether the stored number f is the number the decimal numeral t denotes
Denotes(f, t) ==
    LET dots == {p \in 1..Len(t) : t[p] = "."}
        frac == IF dots = {} THEN 0 ELSE Len(t) - SetMin(dots)
        whole == SelectSeq(t, LAMBDA c : c # ".")
    IN  f.m * Pow10(frac) = IntOf(whole) * Pow10(f.e)

\* the text after the first separator of a line that holds one
AfterFirstSeparator(line) ==
    LET p == SetMin({q \in 1..Len(line) : OccursAt(line, q, Separator)})
    IN  SubSeq(line, p + Len(Separator), Len(line))

\* the value a metadata line holds as far as its next separator: the text
\* from its first separator to the one after it, or to the end of the line
ValueText(line) ==
    LET rest == AfterFirstSeparator(line)
        seps == {q \in 1..Len(rest) : OccursAt(rest, q, Separator)}
    IN  IF seps = {} THEN rest ELSE SubSeq(rest, 1, SetMin(seps) - 1)

\* a line that names a metadata key and holds no separator
KeyWords ==
    {<<"a", "l", "p", "h", "a">>, <<"t", "o", "t", "a", "l">>,
     <<"s", "e", "e", "d">>}

NamesKeyWithoutSeparator(line) ==
    /\ \E w \in KeyWords : StartsWith(line, w)
    /\ \A q \in 1..Len(line) : ~OccursAt(line, q, Separator)

AtKeyLine ==
    /\ pc = "loop"
    /\ i < Len(lines)
    /\ Branch(CurLine) \in Keys

(***************************************************************************)
(* C1: whenever parse_2048_training_data returns, episodes, means and      *)
(* prob2048 have the same length.                                          *)
(***************************************************************************)
C1_EqualLengths ==
    ParseReturned =>
        /\ Len(episodes) = Len(means)
        /\ Len(means) = Len(prob2048)

C1_Witness ==
    /\ pc = "returned"
    /\ Cardinality(EpisodeLines) = 2
    /\ LinesOf("prob") # {}
    /\ Len(prob2048) = 3

\* the result of an input with no line of a known kind
C2_SentinelOnly ==
    (ParseReturned /\ LinesOf("other") = 1..Len(lines)) =>
        /\ metadata = NoMetadata
        /\ episodes = <<0>>
        /\ means = <<Zero>>
        /\ prob2048 = <<Zero>>

\* a step at a line of no kind
C2_OtherLineKeeps ==
    [][AtLine("other") =>
          UNCHANGED <<metadata, episodes, means, prob2048>>]_vars

(***************************************************************************)
(* C2: an input none of whose lines is a metadata, episode or probability  *)
(* line returns empty metadata and the three one-entry sequences [0],      *)
(* [0], [0.0]; a line of no kind changes none of the results.              *)
(***************************************************************************)
C2_NoRecognizedLines ==
    []C2_SentinelOnly /\ C2_OtherLineKeeps

C2_Witness ==
    /\ pc = "returned"
    /\ Len(lines) >= 2
    /\ LinesOf("other") = 1..Len(lines)
    /\ \E k \in 1..Len(lines) : Trimmed(k) # <<>>
    /\ episodes = <<0>>

\* the returned metadata, key by key
C3_LastWins ==
    ParseReturned =>
        /\ DOMAIN metadata \subseteq Keys
        /\ \A key \in Keys :
              IF LinesOf(key) = {} THEN key \notin DOMAIN metadata
              ELSE /\ key \in DOMAIN metadata
                   /\ metadata[key]
                          = ValueText(Trimmed(SetMax(LinesOf(key))))

\* a step at a metadata line
C3_KeyLineKeeps ==
    [][AtKeyLine => UNCHANGED <<episodes, means, prob2048>>]_vars

(***************************************************************************)
(* C3: the returned metadata holds, for each key, the value of the last    *)
(* line of that key, and no entry for a key without a line, wherever the   *)
(* lines of other keys stand; a metadata line leaves the three sequences   *)
(* unchanged.                                                              *)
(***************************************************************************)
C3_Metadata ==
    []C3_LastWins /\ C3_KeyLineKeeps

C3_Witness ==
    /\ pc = "returned"
    /\ Cardinality(DOMAIN metadata) = 2
    /\ \E a \in LinesOf("seed") : \E b \in LinesOf("seed") :
          /\ a < b
          /\ ValueText(Trimmed(a)) # ValueText(Trimmed(b))
          /\ \E c \in LinesOf("alpha") : a < c /\ c < b

\* the returned prob2048 entry of each episode line
C4_EntryOfEpisode ==
    ParseReturned =>
        \A a \in EpisodeLines :
            LET next == SetMin({b \in EpisodeLines : b > a}
                                   \cup {Len(lines) + 1})
                probs == {k \in LinesOf("prob") : a < k /\ k < next}
                entry == 1 + EpisodeRank(a)
            IN  /\ entry <= Len(prob2048)
                /\ IF probs = {} THEN prob2048[entry] = Zero
                   ELSE Denotes(prob2048[entry],
                                ProbNumberText(Trimmed(SetMax(probs))))

\* a step at a probability line
C4_ProbLineSetsLast ==
    [][AtLine("prob") =>
          /\ Len(prob2048') = Len(prob2048)
          /\ \A k \in 1..(Len(prob2048) - 1) : prob2048'[k] = prob2048[k]]_vars

(***************************************************************************)
(* C4: in the result, the prob2048 entry of each episode line is the       *)
(* number of the last probability line between it and the next episode    *)
(* line, and 0.0 when there is none; a probability line changes no entry   *)
(* but the last one.                                                       *)
(***************************************************************************)
C4_Probability ==
    []C4_EntryOfEpisode /\ C4_ProbLineSetsLast

C4_Witness ==
    /\ pc = "returned"
    /\ Len(lines) = 3
    /\ EpisodeLines = {1, 3}
    /\ LinesOf("prob") = {2}
    /\ prob2048[2] # Zero
    /\ prob2048[3] = Zero

(***************************************************************************)
(* C5: after the leading 0, the returned episodes are the episode numbers  *)
(* of the episode lines in input order, none dropped, doubled or moved;    *)
(* they are non-decreasing whenever those of the input are.                *)
(***************************************************************************)
C5_EpisodesInOrder ==
    ParseReturned =>
        /\ Len(episodes) = 1 + Cardinality(EpisodeLines)
        /\ episodes[1] = 0
        /\ \A j \in 1..Cardinality(EpisodeLines) :
              episodes[j + 1] = LeadingNumber(Trimmed(EpisodeLineAt(j)))
        /\ (\A a \in EpisodeLines : \A b \in EpisodeLines :
               a < b => LeadingNumber(Trimmed(a)) <= LeadingNumber(Trimmed(b)))
           => \A j \in 1..(Len(episodes) - 1) : episodes[j] <= episodes[j + 1]

C5_Witness ==
    /\ pc = "returned"
    /\ Len(episodes) = 3
    /\ episodes[2] = episodes[3]

(***************************************************************************)
(* C6 as stated: a line for a metadata key that lacks the separator makes  *)
(* the parse fail, so no input holding one returns.                        *)
(***************************************************************************)
C6_Original ==
    ParseReturned =>
        \A k \in 1..Len(lines) : ~NamesKeyWithoutSeparator(Trimmed(k))

\* a step at a metadata line, and at a line that names a key without the
\* separator
C6_KeyLineStep ==
    [][/\ AtKeyLine
              => /\ pc' = "loop"
                 /\ i' = i + 1
                 /\ Branch(CurLine) \in DOMAIN metadata'
       /\ (pc = "loop" /\ i < Len(lines) /\ NamesKeyWithoutSeparator(CurLine))
              => /\ pc' = "loop"
                 /\ i' = i + 1
                 /\ UNCHANGED <<metadata, episodes, means, prob2048>>]_vars

(***************************************************************************)
(* C6 as amended: no line raises IndexError; a metadata line always stores *)
(* a value and the loop goes on, and a line that names a key without the   *)
(* separator is passed over with no result changed.                        *)
(***************************************************************************)
C6_NoIndexError ==
    [](err # "IndexError") /\ C6_KeyLineStep

C6_Witness ==
    /\ pc = "returned"
    /\ \E k \in 1..Len(lines) : NamesKeyWithoutSeparator(Trimmed(k))
    /\ DOMAIN metadata # {}

(***************************************************************************)
(* C7 as stated: once the ticks of a chart are set, they are 10 evenly     *)
(* spaced steps of a positive integer from floor(min/1000)*1000 to         *)
(* floor(max/1000)*1000 + 1000, for every episodes the parser returns.     *)
(***************************************************************************)
C7_Original ==
    pc \in {"chart2", "done", "plot_raised"} =>
        LET lo == (SetMin(SeqRange(episodes)) \div TickUnit) * TickUnit
            hi == (SetMax(SeqRange(episodes)) \div TickUnit) * TickUnit
                      + TickUnit
        IN  /\ pc # "plot_raised"
            /\ Len(x_ticks) = TickSteps + 1
            /\ x_ticks[1] = lo
            /\ x_ticks[Len(x_ticks)] = hi
            /\ \E step \in 1..hi :
                  \A k \in 1..(Len(x_ticks) - 1) :
                      x_ticks[k + 1] - x_ticks[k] = step

(***************************************************************************)
(* C8 as stated: the value stored for a key is the whole text after the    *)
(* first separator of the last line of that key.                           *)
(***************************************************************************)
C8_Original ==
    ParseReturned =>
        \A key \in DOMAIN metadata :
            metadata[key] = AfterFirstSeparator(Trimmed(SetMax(LinesOf(key))))

C9_EpisodeLineStep ==
    [][AtLine("episode") =>
          /\ Len(prob2048') = Len(prob2048) + 1
          /\ IF IsDecimal(MeanText(CurLine))
             THEN /\ pc' = "loop"
                  /\ Len(episodes') = Len(episodes) + 1
                  /\ Len(means') = Len(means) + 1
                  /\ Denotes(means'[Len(means')], MeanText(CurLine))
             ELSE /\ pc' = "parse_raised"
                  /\ err' = "ValueError"
                  /\ UNCHANGED <<episodes, means>>]_vars

C10_Original ==
    ParseReturned =>
        /\ episodes[1] = 0
        /\ means[1] = Zero
        /\ prob2048[1] = Zero
====
